---- MODULE Spec2Model ----
(***************************************************************************)
(* Model of the address book of main.py: the validated fields (Name,       *)
(* Phone, Birthday), Record, AddressBook with get_upcoming_birthdays, the  *)
(* input_error decorator and the command handlers.                          *)
(*                                                                         *)
(* A Python str is a sequence of one-character strings; the character      *)
(* "sup2" stands for U+00B2 (SUPERSCRIPT TWO), which str.isdigit accepts    *)
(* although it is not a decimal digit.  A date is a record [y, m, d].       *)
(* The AddressBook (a dict, which keeps insertion order) is a sequence of   *)
(* records with pairwise distinct names.                                    *)
(***************************************************************************)
EXTENDS Integers, Sequences, FiniteSets, TLC

VARIABLES
  book,     \* the AddressBook: its records in insertion order
  today,    \* date.today()
  padYear,  \* whether this build's strftime zero-pads %Y to four digits
  elapsed,  \* days elapsed since the start of the run
  call,     \* the last operation called, with its arguments
  ret       \* what that call returned or raised

vars == <<book, today, padYear, elapsed, call, ret>>

----------------------------------------------------------------------------
(* Bounds *)

MaxPhones == 2
MaxDirSize == 2
MaxAdvance == 2

----------------------------------------------------------------------------
(* Characters and strings *)

AsciiDigits == {"0", "1", "2", "3", "4", "5", "6", "7", "8", "9"}

DigitVal(c) ==
  CASE c = "0" -> 0 [] c = "1" -> 1 [] c = "2" -> 2 [] c = "3" -> 3
    [] c = "4" -> 4 [] c = "5" -> 5 [] c = "6" -> 6 [] c = "7" -> 7
    [] c = "8" -> 8 [] c = "9" -> 9

DigitChar(n) ==
  CASE n = 0 -> "0" [] n = 1 -> "1" [] n = 2 -> "2" [] n = 3 -> "3"
    [] n = 4 -> "4" [] n = 5 -> "5" [] n = 6 -> "6" [] n = 7 -> "7"
    [] n = 8 -> "8" [] n = 9 -> "9"

Rep(c, n) == [i \in 1..n |-> c]

IsSpace(c) == c = " "

\* str.isdigit on one character: true for the ASCII digits and for the
\* characters of Numeric_Type=Digit such as U+00B2.
CharIsDigit(c) == c \in AsciiDigits \cup {"sup2"}

\* str.isdigit: non-empty and every character is a digit character.
IsDigitStr(s) == Len(s) > 0 /\ \A i \in 1..Len(s) : CharIsDigit(s[i])

\* str.strip
Strip(s) ==
  LET keep == {i \in 1..Len(s) : ~IsSpace(s[i])}
  IN  IF keep = {} THEN <<>>
      ELSE LET lo == CHOOSE i \in keep : \A j \in keep : i <= j
               hi == CHOOSE i \in keep : \A j \in keep : j <= i
           IN  SubSeq(s, lo, hi)

\* the value of a non-empty string of ASCII digits
RECURSIVE DecVal(_)
DecVal(s) ==
  IF Len(s) = 0 THEN 0
  ELSE 10 * DecVal(SubSeq(s, 1, Len(s) - 1)) + DigitVal(s[Len(s)])

IsAsciiDigitStr(s) == Len(s) > 0 /\ \A i \in 1..Len(s) : s[i] \in AsciiDigits

----------------------------------------------------------------------------
(* datetime.date *)

IsLeap(y) == (y % 4 = 0) /\ ((y % 100 # 0) \/ (y % 400 = 0))

DaysInMonth(y, m) ==
  CASE m \in {1, 3, 5, 7, 8, 10, 12} -> 31
    [] m \in {4, 6, 9, 11} -> 30
    [] m = 2 -> IF IsLeap(y) THEN 29 ELSE 28

Date(y, m, d) == [y |-> y, m |-> m, d |-> d]

\* the date constructor raises ValueError unless this holds
ValidDate(y, m, d) ==
  /\ y \in 1..9999
  /\ m \in 1..12
  /\ d >= 1
  /\ d <= DaysInMonth(y, m)

\* the days of year y before the first of month m
DaysBeforeMonth(y, m) ==
  <<0, 31, 59, 90, 120, 151, 181, 212, 243, 273, 304, 334>>[m]
    + (IF m > 2 /\ IsLeap(y) THEN 1 ELSE 0)

\* date.toordinal: 1 January of year 1 is day 1
ToOrdinal(dt) ==
  LET p == dt.y - 1
  IN  p * 365 + (p \div 4) - (p \div 100) + (p \div 400)
        + DaysBeforeMonth(dt.y, dt.m) + dt.d

\* date.weekday: Monday is 0, Saturday 5, Sunday 6
Weekday(dt) == (ToOrdinal(dt) + 6) % 7

NextDay(dt) ==
  IF dt.d < DaysInMonth(dt.y, dt.m) THEN Date(dt.y, dt.m, dt.d + 1)
  ELSE IF dt.m < 12 THEN Date(dt.y, dt.m + 1, 1)
  ELSE Date(dt.y + 1, 1, 1)

\* date + timedelta(days=n), n >= 0
RECURSIVE AddDays(_, _)
AddDays(dt, n) == IF n = 0 THEN dt ELSE AddDays(NextDay(dt), n - 1)

\* date1 < date2
DateLess(a, b) == ToOrdinal(a) < ToOrdinal(b)

\* (date1 - date2).days
DaysBetween(a, b) == ToOrdinal(a) - ToOrdinal(b)

Pad2(n) == <<DigitChar(n \div 10), DigitChar(n % 10)>>

RECURSIVE Decimal(_)
Decimal(n) ==
  IF n < 10 THEN <<DigitChar(n)>>
  ELSE Decimal(n \div 10) \o <<DigitChar(n % 10)>>

Pad4(n) == Rep("0", 4 - Len(Decimal(n))) \o Decimal(n)

\* date.strftime("%d.%m.%Y"): %d and %m are zero-padded to two digits; %Y is
\* the C library's: four digits zero-padded on some builds, unpadded on
\* others (glibc), which differ for years below 1000.
Strftime(dt, pad) ==
  Pad2(dt.d) \o <<".">> \o Pad2(dt.m) \o <<".">>
    \o (IF pad THEN Pad4(dt.y) ELSE Decimal(dt.y))

ParseError == [error |-> "ValueError"]

\* the date of the matched fields, or ParseError when there is none
FieldsDate(y, m, d) == IF ValidDate(y, m, d) THEN Date(y, m, d) ELSE ParseError

AllAsciiDigits(s, from, to) == \A i \in from..to : s[i] \in AsciiDigits

\* the value of the digits s[from..to], at most four of them
Number(s, from, to) ==
  IF from = to THEN DigitVal(s[to])
  ELSE IF from + 1 = to THEN 10 * DigitVal(s[from]) + DigitVal(s[to])
  ELSE 1000 * DigitVal(s[from]) + 100 * DigitVal(s[from + 1])
         + 10 * DigitVal(s[from + 2]) + DigitVal(s[to])

\* s with its dots at d1 and d2: one or two digits, one or two digits, four
SplitDate(s, d1, d2) ==
  IF /\ d1 \in {2, 3}
     /\ d2 - d1 \in {2, 3}
     /\ Len(s) = d2 + 4
     /\ AllAsciiDigits(s, 1, d1 - 1)
     /\ AllAsciiDigits(s, d1 + 1, d2 - 1)
     /\ AllAsciiDigits(s, d2 + 1, d2 + 4)
  THEN FieldsDate(Number(s, d2 + 1, d2 + 4), Number(s, d1 + 1, d2 - 1),
                  Number(s, 1, d1 - 1))
  ELSE ParseError

\* datetime.strptime(s, "%d.%m.%Y").date(): the day and the month are one
\* or two digits, the year exactly four, separated by dots; raises
\* ValueError (ParseError here) on a mismatch or an impossible date.  The
\* year's dot is the fifth character from the end, the day's the second or
\* the third character.
Strptime(s) ==
  IF Len(s) < 8 \/ s[Len(s) - 4] # "." THEN ParseError
  ELSE IF s[2] = "." THEN SplitDate(s, 2, Len(s) - 4)
  ELSE IF s[3] = "." THEN SplitDate(s, 3, Len(s) - 4)
  ELSE ParseError

----------------------------------------------------------------------------
(* Outcome of a call: exc is "none" or the exception raised, e the         *)
(* exception's message, value what is returned.                            *)

NoneV == [none |-> TRUE]

Returned(v) == [exc |-> "none", e |-> "", value |-> v]
Raised(x, msg) == [exc |-> x, e |-> msg, value |-> NoneV]

----------------------------------------------------------------------------
(* Field, Name, Phone, Birthday *)

\* Name.__init__
NameNew(raw) ==
  LET value == Strip(raw)
  IN  IF Len(value) = 0 THEN Raised("ValueError", "name is empty")
      ELSE Returned([value |-> value])

\* Phone.__init__
PhoneNew(raw) ==
  LET value == Strip(raw)
  IN  IF ~IsDigitStr(value) \/ Len(value) # 10
      THEN Raised("ValueError", "phone must have 10 digits")
      ELSE Returned([value |-> value])

\* Birthday.__init__
BirthdayNew(raw, pad) ==
  LET parsed_value == Strptime(Strip(raw))
  IN  IF parsed_value = ParseError
      THEN Raised("ValueError", "bad date format, must be DD.MM.YYYY")
      ELSE Returned([value |-> Strftime(parsed_value, pad)])

\* Birthday.date_value: a date, or ParseError when strptime raises
DateValue(birthday) == Strptime(birthday.value)

----------------------------------------------------------------------------
(* Record: [name, phones, birthday]; phones is the list of Phone objects,  *)
(* birthday is NoneV or a Birthday object.                                 *)

\* Record.__init__
RecordNew(raw) ==
  LET n == NameNew(raw)
  IN  IF n.exc # "none" THEN n
      ELSE Returned([name |-> n.value, phones |-> <<>>, birthday |-> NoneV])

\* Record.add_phone: the outcome's value is the record afterwards
RecAddPhone(rec, phone) ==
  LET p == PhoneNew(phone)
  IN  IF p.exc # "none" THEN p
      ELSE Returned([rec EXCEPT !.phones = Append(@, p.value)])

\* the last Phone whose value equals phone instead of the first
FindPhoneLast(rec, phone) ==
  LET hits == {i \in 1..Len(rec.phones) : rec.phones[i].value = phone}
  IN  IF hits = {} THEN 0 ELSE CHOOSE i \in hits : \A j \in hits : j <= i

\* Record.find_phone: the index of the first Phone whose value equals phone,
\* 0 for None
FindPhone(rec, phone) ==
  LET hits == {i \in 1..Len(rec.phones) : rec.phones[i].value = phone}
  IN  IF hits = {} THEN 0 ELSE CHOOSE i \in hits : \A j \in hits : i <= j

\* Record.edit_phone
RecEditPhone(rec, old_phone, new_phone) ==
  LET p == FindPhone(rec, old_phone)
  IN  IF p = 0 THEN Raised("ValueError", "Old phone {old_phone} not found")
      ELSE LET n == PhoneNew(new_phone)
           IN  IF n.exc # "none" THEN n
               ELSE Returned([rec EXCEPT !.phones[p] = [value |-> n.value.value]])

RemoveAt(s, i) == SubSeq(s, 1, i - 1) \o SubSeq(s, i + 1, Len(s))

\* Record.remove_phone
RecRemovePhone(rec, phone) ==
  LET p == FindPhone(rec, phone)
  IN  IF p = 0 THEN Raised("ValueError", "Nothing to remove")
      ELSE Returned([rec EXCEPT !.phones = RemoveAt(@, p)])

\* Record.add_birthday
RecAddBirthday(rec, birthday, pad) ==
  LET b == BirthdayNew(birthday, pad)
  IN  IF b.exc # "none" THEN b
      ELSE Returned([rec EXCEPT !.birthday = b.value])

----------------------------------------------------------------------------
(* AddressBook *)

\* the position of key name in the dict, 0 when absent
IndexOf(bk, name) ==
  LET hits == {i \in 1..Len(bk) : bk[i].name.value = name}
  IN  IF hits = {} THEN 0 ELSE CHOOSE i \in hits : TRUE

\* AddressBook.add_record: a new key goes last, an existing key keeps its
\* place and gets the new record
BookAddRecord(bk, record) ==
  LET i == IndexOf(bk, record.name.value)
  IN  IF i = 0 THEN Append(bk, record) ELSE [bk EXCEPT ![i] = record]

\* AddressBook.find: the position of the record, 0 for None
BookFind(bk, name) == IndexOf(bk, name)

\* AddressBook.delete: the outcome's value is the book afterwards
BookDelete(bk, name) ==
  IF IndexOf(bk, name) = 0 THEN Raised("KeyError", "Name not found")
  ELSE Returned(RemoveAt(bk, IndexOf(bk, name)))

\* a fallback to 1 March instead of 28 February
SafeBirthdayForYearMarch1(bday, year) ==
  IF ValidDate(year, bday.m, bday.d) THEN Date(year, bday.m, bday.d)
  ELSE Date(year, 3, 1)

\* AddressBook._safe_birthday_for_year: bday.replace(year=year) raises
\* ValueError exactly when the date does not exist in that year
SafeBirthdayForYear(bday, year) ==
  IF ValidDate(year, bday.m, bday.d) THEN Date(year, bday.m, bday.d)
  ELSE Date(year, 2, 28)

\* the birthday's occurrence of lines 114-117
Occurrence(bday_date, tday) ==
  LET birthday_this_year == SafeBirthdayForYear(bday_date, tday.y)
  IN  IF DateLess(birthday_this_year, tday)
      THEN SafeBirthdayForYear(bday_date, tday.y + 1)
      ELSE birthday_this_year

\* a Saturday moved by one day only
CongratDateSaturdayPlus1(occ) ==
  IF Weekday(occ) = 5 THEN AddDays(occ, 1)
  ELSE IF Weekday(occ) = 6 THEN AddDays(occ, 1)
  ELSE occ

\* the weekend shift of lines 119-124
CongratDate(occ) ==
  IF Weekday(occ) = 5 THEN AddDays(occ, 2)
  ELSE IF Weekday(occ) = 6 THEN AddDays(occ, 1)
  ELSE occ

\* the window test of lines 126-127
Within(delta, days) == 0 <= delta /\ delta <= days

InWindow(congrat_date, tday, days) == Within(DaysBetween(congrat_date, tday), days)

\* a sort by the DD.MM.YYYY text instead of the date it denotes
SortKeyAsText(entry) ==
  Strptime(entry.congratulation_date).d * 1000000
    + Strptime(entry.congratulation_date).m * 10000
    + Strptime(entry.congratulation_date).y

\* the sort key of line 133
SortKey(entry) == ToOrdinal(Strptime(entry.congratulation_date))

\* list.sort(key=...): stable, ascending by key
RECURSIVE InsertSorted(_, _)
InsertSorted(sorted, x) ==
  IF Len(sorted) = 0 THEN <<x>>
  ELSE IF SortKey(sorted[Len(sorted)]) <= SortKey(x) THEN Append(sorted, x)
  ELSE Append(InsertSorted(SubSeq(sorted, 1, Len(sorted) - 1), x),
              sorted[Len(sorted)])

RECURSIVE SortByDate(_)
SortByDate(s) ==
  IF Len(s) = 0 THEN <<>>
  ELSE InsertSorted(SortByDate(SubSeq(s, 1, Len(s) - 1)), s[Len(s)])

\* lines 126-131: the list after the record with this congratulation date
Considered(before, record, congrat_date, tday, days, pad) ==
  IF InWindow(congrat_date, tday, days)
  THEN Append(before,
              [name |-> record.name.value,
               congratulation_date |-> Strftime(congrat_date, pad)])
  ELSE before

\* the loop of lines 109-131 over the first n records: the entries appended
RECURSIVE UpcomingLoop(_, _, _, _, _)
UpcomingLoop(bk, n, tday, days, pad) ==
  IF n = 0 THEN <<>>
  ELSE IF bk[n].birthday = NoneV THEN UpcomingLoop(bk, n - 1, tday, days, pad)
  ELSE Considered(UpcomingLoop(bk, n - 1, tday, days, pad), bk[n],
                  CongratDate(Occurrence(DateValue(bk[n].birthday), tday)),
                  tday, days, pad)

\* AddressBook.get_upcoming_birthdays(days) on the day tday: date_value
\* raises ValueError for a stored birthday that strptime cannot read back
GetUpcomingBirthdays(bk, tday, days, pad) ==
  IF \E i \in 1..Len(bk) :
       bk[i].birthday # NoneV /\ DateValue(bk[i].birthday) = ParseError
  THEN Raised("ValueError", "time data does not match format")
  ELSE Returned(SortByDate(UpcomingLoop(bk, Len(bk), tday, days, pad)))

----------------------------------------------------------------------------
(* input_error and the command handlers.  A handler's outcome carries the  *)
(* book as the call leaves it, also when it raises.                        *)

Done(msg, data, bk) == [exc |-> "none", e |-> "", msg |-> msg, data |-> data, book |-> bk]
Fail(x, e, bk) == [exc |-> x, e |-> e, msg |-> "", data |-> <<>>, book |-> bk]

\* input_error.inner: the message returned for each exception caught
InputError(out) ==
  CASE out.exc = "none" -> out
    [] out.exc = "AttributeError" -> [out EXCEPT !.msg = "Name not found."]
    [] out.exc = "ValueError" -> [out EXCEPT !.msg = "Error: {e}"]
    [] out.exc = "IndexError" -> [out EXCEPT !.msg = "Not enough arguments."]
    [] out.exc = "KeyError" -> [out EXCEPT !.msg = "Name not found."]

\* sep.join(parts)
RECURSIVE Join(_, _)
Join(parts, sep) ==
  IF Len(parts) = 0 THEN <<>>
  ELSE IF Len(parts) = 1 THEN parts[1]
  ELSE Join(SubSeq(parts, 1, Len(parts) - 1), sep) \o sep \o parts[Len(parts)]

\* add_contact, undecorated
AddContactBody(args, bk) ==
  IF Len(args) < 2
  THEN Fail("ValueError", "not enough values to unpack (expected at least 2)", bk)
  ELSE
    LET name == args[1]
        phone == args[2]
        found == BookFind(bk, name)
        made == RecordNew(name)
    IN  IF found = 0 /\ made.exc # "none" THEN Fail(made.exc, made.e, bk)
        ELSE
          LET bk1 == IF found = 0 THEN BookAddRecord(bk, made.value) ELSE bk
              at == IF found = 0 THEN IndexOf(bk1, made.value.name.value) ELSE found
              message == IF found = 0 THEN "Contact added." ELSE "Contact updated."
              added == RecAddPhone(bk1[at], phone)
          IN  IF Len(phone) = 0 THEN Done(message, <<>>, bk1)
              ELSE IF added.exc # "none" THEN Fail(added.exc, added.e, bk1)
              ELSE Done(message, <<>>, [bk1 EXCEPT ![at] = added.value])

add_contact(args, bk) == InputError(AddContactBody(args, bk))

\* change_contact, undecorated
ChangeContactBody(args, bk) ==
  IF Len(args) < 3 THEN Fail("IndexError", "list index out of range", bk)
  ELSE
    LET at == BookFind(bk, args[1])
        edited == RecEditPhone(bk[at], args[2], args[3])
    IN  IF at = 0 THEN Fail("AttributeError", "NoneType has no attribute edit_phone", bk)
        ELSE IF edited.exc # "none" THEN Fail(edited.exc, edited.e, bk)
        ELSE Done("Phone updated.", <<>>, [bk EXCEPT ![at] = edited.value])

change_contact(args, bk) == InputError(ChangeContactBody(args, bk))

\* show_phone, undecorated
ShowPhoneBody(args, bk) ==
  IF Len(args) < 1 THEN Fail("IndexError", "list index out of range", bk)
  ELSE
    LET at == BookFind(bk, args[1])
    IN  IF at = 0 THEN Fail("AttributeError", "NoneType has no attribute phones", bk)
        ELSE IF Len(bk[at].phones) = 0 THEN Done("No phones found.", <<>>, bk)
        ELSE Done("{phones}",
                  Join([i \in 1..Len(bk[at].phones) |-> bk[at].phones[i].value],
                       <<";", " ">>),
                  bk)

show_phone(args, bk) == InputError(ShowPhoneBody(args, bk))

\* add_birthday, undecorated
AddBirthdayBody(args, bk, pad) ==
  IF Len(args) < 2 THEN Fail("IndexError", "list index out of range", bk)
  ELSE
    LET at == BookFind(bk, args[1])
        set == RecAddBirthday(bk[at], args[2], pad)
    IN  IF at = 0 THEN Fail("AttributeError", "NoneType has no attribute add_birthday", bk)
        ELSE IF set.exc # "none" THEN Fail(set.exc, set.e, bk)
        ELSE Done("Birthday added.", <<>>, [bk EXCEPT ![at] = set.value])

add_birthday(args, bk, pad) == InputError(AddBirthdayBody(args, bk, pad))

\* show_birthday, undecorated
ShowBirthdayBody(args, bk) ==
  IF Len(args) < 1 THEN Fail("IndexError", "list index out of range", bk)
  ELSE
    LET at == BookFind(bk, args[1])
    IN  IF at = 0 THEN Fail("AttributeError", "NoneType has no attribute birthday", bk)
        ELSE IF bk[at].birthday = NoneV THEN Done("Birthday not set.", <<>>, bk)
        ELSE Done("{birthday}", bk[at].birthday.value, bk)

show_birthday(args, bk) == InputError(ShowBirthdayBody(args, bk))

\* int(s) for a token: an optional sign and ASCII digits
IntOf(s) ==
  LET signed == Len(s) > 0 /\ s[1] \in {"-", "+"}
      digits == IF signed THEN SubSeq(s, 2, Len(s)) ELSE s
  IN  IF ~IsAsciiDigitStr(digits) THEN Raised("ValueError", "invalid literal for int()")
      ELSE IF signed /\ s[1] = "-" THEN Returned(0 - DecVal(digits))
      ELSE Returned(DecVal(digits))

\* birthdays, undecorated
BirthdaysBody(args, bk, tday, pad) ==
  LET days == IF Len(args) > 0 THEN IntOf(args[1]) ELSE Returned(7)
      upcoming == GetUpcomingBirthdays(bk, tday, days.value, pad)
  IN  IF days.exc # "none" THEN Fail(days.exc, days.e, bk)
      ELSE IF upcoming.exc # "none" THEN Fail(upcoming.exc, upcoming.e, bk)
      ELSE IF Len(upcoming.value) = 0 THEN Done("No upcoming birthdays.", <<>>, bk)
      ELSE Done("{upcoming}",
                Join([i \in 1..Len(upcoming.value) |->
                        upcoming.value[i].name \o <<":", " ">>
                          \o upcoming.value[i].congratulation_date],
                     <<"LF">>),
                bk)

birthdays(args, bk, tday, pad) == InputError(BirthdaysBody(args, bk, tday, pad))

----------------------------------------------------------------------------
(* Inputs *)

NameAnn == <<"A", "n", "n">>
NameBob == <<"B", "o", "b">>
NameCat == <<"C", "a", "t">>

Phone1 == Rep("1", 10)
Phone2 == Rep("2", 10)
Phone2Spaced == <<" ">> \o Phone2 \o <<" ">>
PhoneShort == Rep("1", 9)
PhoneLong == Rep("1", 11)
PhoneAlpha == Rep("1", 9) \o <<"a">>
PhoneSup == Rep("sup2", 10)

\* what the shell's split() can hand a handler as a phone
PhoneTokens == {Phone1, Phone2, PhoneShort, PhoneSup}

\* what a caller can hand a Record method as a phone
PhoneRaws == {Phone1, Phone2, Phone2Spaced, PhoneShort, PhoneLong, PhoneAlpha, PhoneSup}

NameTokens == {NameAnn, NameBob}

NameRaws == {NameAnn, NameBob, <<" ">>}

S(d1, d2, m1, m2, y1, y2, y3, y4) == <<d1, d2, ".", m1, m2, ".", y1, y2, y3, y4>>

Bday29Feb == S("2", "9", "0", "2", "2", "0", "0", "0")
Bday28Dec == S("2", "8", "1", "2", "1", "9", "8", "0")
Bday30Dec == S("3", "0", "1", "2", "1", "9", "9", "9")
Bday1Jan == <<"1", ".", "1", ".", "1", "9", "9", "0">>
BdayYear999 == S("0", "1", "0", "1", "0", "9", "9", "9")
BdayImpossible == S("3", "1", "0", "2", "2", "0", "2", "0")

\* the birthdays given to the directories of the birthday queries
BirthdayRaws == {Bday29Feb, Bday28Dec, Bday30Dec, Bday1Jan, BdayYear999}

\* the birthdays given to the shell and to Record.add_birthday
DateTokens == {Bday1Jan, BdayImpossible}

DaysTokens == {<<"7">>, <<"-", "1">>, <<"x">>}

Windows == {0 - 1, 0, 7, 366}

\* 27.02.2023 is a Monday, 28.12.2024 a Saturday
StartDays == {Date(2023, 2, 27), Date(2024, 12, 28)}

\* the day of the shell's run
ShellDay == Date(2024, 12, 28)

Prefixes(full) == {SubSeq(full, 1, k) : k \in 0..Len(full)}

----------------------------------------------------------------------------
(* State *)

NoCall == [op |-> "none", target |-> <<>>, args |-> <<>>, days |-> 0]
\* exc, e: the exception raised ("none": none) and its message; msg, data:
\* the text a handler returned; value: the list a query returned
MkRet(exc, e, msg, data, value) ==
  [exc |-> exc, e |-> e, msg |-> msg, data |-> data, value |-> value]

NoRet == MkRet("none", "", "", <<>>, <<>>)

Called(op, target, args) == [op |-> op, target |-> target, args |-> args, days |-> 0]

\* what a handler's caller sees of its outcome
Shown(out) == MkRet(out.exc, out.e, out.msg, out.data, <<>>)

RECURSIVE PhoneCount(_)
PhoneCount(bk) ==
  IF Len(bk) = 0 THEN 0
  ELSE PhoneCount(SubSeq(bk, 1, Len(bk) - 1)) + Len(bk[Len(bk)].phones)

\* the model holds at most MaxPhones phones in a book
PhonesBounded(bk) == PhoneCount(bk) <= MaxPhones

DirBounded(bk) == Len(bk) <= MaxDirSize /\ PhonesBounded(bk)

\* main: book = load_data() with no file yet
Init ==
  /\ book = <<>>
  /\ today = ShellDay
  /\ padYear \in BOOLEAN
  /\ elapsed = 0
  /\ call = NoCall
  /\ ret = NoRet

\* one command of main's loop: the handler runs, its message is printed
Command(op, args, out) ==
  /\ DirBounded(out.book)
  /\ book' = out.book
  /\ call' = Called(op, <<>>, args)
  /\ ret' = Shown(out)
  /\ UNCHANGED <<today, padYear, elapsed>>

\* the argument lists the shell hands each handler: complete ones, ones
\* cut short, and for add one with a token too many
AddArgs ==
  UNION {Prefixes(<<n, p>>) \cup {<<n, p, Phone1>>} : n \in NameTokens, p \in PhoneTokens}

ChangeArgs ==
  UNION {Prefixes(<<n, o, p>>) : n \in NameTokens, o \in {Phone1, Phone2}, p \in PhoneTokens}

NameArgs == UNION {Prefixes(<<n>>) : n \in NameTokens}

AddBirthdayArgs == UNION {Prefixes(<<n, d>>) : n \in NameTokens, d \in DateTokens}

BirthdaysArgs == UNION {Prefixes(<<d>>) : d \in DaysTokens}

AddContactCmd ==
  \E args \in AddArgs : Command("add", args, add_contact(args, book))

ChangeContactCmd ==
  \E args \in ChangeArgs : Command("change", args, change_contact(args, book))

ShowPhoneCmd ==
  \E args \in NameArgs : Command("phone", args, show_phone(args, book))

AddBirthdayCmd ==
  \E args \in AddBirthdayArgs :
    Command("add_birthday", args, add_birthday(args, book, padYear))

ShowBirthdayCmd ==
  \E args \in NameArgs : Command("show_birthday", args, show_birthday(args, book))

BirthdaysCmd ==
  \E args \in BirthdaysArgs :
    Command("birthdays", args, birthdays(args, book, today, padYear))

\* a direct call of a Record method on the i-th record of the book
Method(op, i, args, out) ==
  /\ book' = IF out.exc = "none" THEN [book EXCEPT ![i] = out.value] ELSE book
  /\ PhonesBounded(book')
  /\ call' = Called(op, book[i].name.value, args)
  /\ ret' = MkRet(out.exc, out.e, "", <<>>, <<>>)
  /\ UNCHANGED <<today, padYear, elapsed>>

AddPhone ==
  \E i \in 1..Len(book), p \in PhoneRaws :
    Method("add_phone", i, <<p>>, RecAddPhone(book[i], p))

EditPhone ==
  \E i \in 1..Len(book), o \in {Phone1, Phone2, Phone2Spaced}, p \in PhoneRaws :
    Method("edit_phone", i, <<o, p>>, RecEditPhone(book[i], o, p))

RemovePhone ==
  \E i \in 1..Len(book), p \in {Phone1, Phone2, Phone2Spaced} :
    Method("remove_phone", i, <<p>>, RecRemovePhone(book[i], p))

AddBirthday ==
  \E i \in 1..Len(book), d \in DateTokens :
    Method("add_birthday", i, <<d>>, RecAddBirthday(book[i], d, padYear))

\* book.add_record(Record(name)); Record(name) raises for an empty name
AddRecord ==
  \E n \in NameRaws :
    LET made == RecordNew(n)
    IN  /\ book' = IF made.exc = "none" THEN BookAddRecord(book, made.value) ELSE book
        /\ DirBounded(book')
        /\ call' = Called("add_record", <<>>, <<n>>)
        /\ ret' = MkRet(made.exc, made.e, "", <<>>, <<>>)
        /\ UNCHANGED <<today, padYear, elapsed>>

Delete ==
  \E n \in NameTokens :
    LET out == BookDelete(book, n)
    IN  /\ book' = IF out.exc = "none" THEN out.value ELSE book
        /\ call' = Called("delete", <<>>, <<n>>)
        /\ ret' = MkRet(out.exc, out.e, "", <<>>, <<>>)
        /\ UNCHANGED <<today, padYear, elapsed>>

\* the shell's commands and the AddressBook's own methods
Next ==
  \/ AddContactCmd
  \/ ChangeContactCmd
  \/ ShowPhoneCmd
  \/ AddBirthdayCmd
  \/ ShowBirthdayCmd
  \/ BirthdaysCmd
  \/ AddRecord
  \/ Delete

Spec == Init /\ [][Next]_vars

\* one Record, as Record("Ann") makes it
InitRecord ==
  /\ book = <<RecordNew(NameAnn).value>>
  /\ today = ShellDay
  /\ padYear \in BOOLEAN
  /\ elapsed = 0
  /\ call = NoCall
  /\ ret = NoRet

\* the Record's methods
NextRecord ==
  \/ AddPhone
  \/ EditPhone
  \/ RemovePhone
  \/ AddBirthday

SpecRecord == InitRecord /\ [][NextRecord]_vars

----------------------------------------------------------------------------
(* The birthday query on a directory, day after day *)

DirNames == {NameAnn, NameBob, NameCat}

\* the records Record(name) and add_birthday(raw) can make
BirthdayRecords(pad) ==
  {[name |-> NameNew(n).value, phones |-> <<>>, birthday |-> b] :
     n \in DirNames,
     b \in {NoneV} \cup {BirthdayNew(r, pad).value : r \in BirthdayRaws}}

\* the directories add_record can make of them: the keys are distinct
Directories(pad) ==
  UNION {{d \in [1..k -> BirthdayRecords(pad)] :
            \A i, j \in 1..k : i # j => d[i].name # d[j].name} :
         k \in 0..MaxDirSize}

InitBirthdays ==
  /\ padYear \in BOOLEAN
  /\ book \in Directories(padYear)
  /\ today \in StartDays
  /\ elapsed = 0
  /\ call = NoCall
  /\ ret = NoRet

\* book.get_upcoming_birthdays(days) called today
Query(days, out) ==
  /\ call' = [op |-> "get_upcoming_birthdays", target |-> <<>>,
              args |-> <<>>, days |-> days]
  /\ ret' = MkRet(out.exc, out.e, "", <<>>,
                  IF out.exc = "none" THEN out.value ELSE <<>>)
  /\ UNCHANGED <<book, today, padYear, elapsed>>

GetUpcoming ==
  \E days \in Windows :
    \E out \in {GetUpcomingBirthdays(book, today, days, padYear)} : Query(days, out)

\* midnight: date.today() moves on a day, between two calls
AdvanceDay ==
  /\ elapsed < MaxAdvance
  /\ today' = NextDay(today)
  /\ elapsed' = elapsed + 1
  /\ call' = NoCall
  /\ ret' = NoRet
  /\ UNCHANGED <<book, padYear>>

NextBirthdays ==
  \/ GetUpcoming
  \/ AdvanceDay

SpecBirthdays == InitBirthdays /\ [][NextBirthdays]_vars

----------------------------------------------------------------------------
(* Vocabulary of the properties *)

Queried == call.op = "get_upcoming_birthdays"

HasBirthday(rec) == rec.birthday # NoneV

\* the calendar date an entry's DD.MM.YYYY text denotes
EntryDate(entry) == Strptime(entry.congratulation_date)

\* t is an occurrence of the birthday b: its day and month, or 28 February
\* of a year without the 29th
IsOccurrence(t, b) ==
  \/ t.m = b.m /\ t.d = b.d
  \/ b.m = 2 /\ b.d = 29 /\ ~IsLeap(t.y) /\ t.m = 2 /\ t.d = 28

\* the next occurrence of b on or after tday
NextOccurrence(b, tday) ==
  LET cands == {t \in {Date(y, md[1], md[2]) :
                         y \in {tday.y, tday.y + 1},
                         md \in {<<b.m, b.d>>, <<2, 28>>}} :
                  /\ ValidDate(t.y, t.m, t.d)
                  /\ IsOccurrence(t, b)
                  /\ ToOrdinal(t) >= ToOrdinal(tday)}
  IN  CHOOSE t \in cands : \A u \in cands : ToOrdinal(t) <= ToOrdinal(u)

\* the number of days a Saturday (2) or a Sunday (1) is moved, else 0
WeekendShift(dt) ==
  IF Weekday(dt) = 5 THEN 2 ELSE IF Weekday(dt) = 6 THEN 1 ELSE 0

\* the record's congratulation date as an ordinal
DueOrdinal(rec, tday) ==
  ToOrdinal(NextOccurrence(DateValue(rec.birthday), tday))
    + WeekendShift(NextOccurrence(DateValue(rec.birthday), tday))

IsDue(rec, tday, days) ==
  /\ HasBirthday(rec)
  /\ 0 <= DueOrdinal(rec, tday) - ToOrdinal(tday)
  /\ DueOrdinal(rec, tday) - ToOrdinal(tday) <= days

EntriesOf(rec, entries) == {k \in 1..Len(entries) : entries[k].name = rec.name.value}

\* C1: get_upcoming_birthdays returns, for every directory, day and window,
\* exactly one entry for each record with a birthday whose congratulation
\* date (the next occurrence on or after today, moved off the weekend) is 0
\* to windowDays days ahead, no entry for any other record, and for a
\* negative window an empty list, without failing.
C1_UpcomingExactlyTheDue ==
  Queried =>
    /\ ret.exc = "none"
    /\ \A i \in 1..Len(book) :
         Cardinality(EntriesOf(book[i], ret.value))
           = (IF IsDue(book[i], today, call.days) THEN 1 ELSE 0)
    /\ \A k \in 1..Len(ret.value) :
         \E i \in 1..Len(book) :
           /\ ret.value[k].name = book[i].name.value
           /\ HasBirthday(book[i])
           /\ ToOrdinal(EntryDate(ret.value[k])) = DueOrdinal(book[i], today)
    /\ (call.days < 0 => ret.value = <<>>)

LeapDayRecords == {i \in 1..Len(book) : HasBirthday(book[i]) /\ book[i].birthday.value = Bday29Feb}

Entry(name, d1, d2, m1, m2, y1, y2, y3, y4) ==
  [name |-> name, congratulation_date |-> S(d1, d2, m1, m2, y1, y2, y3, y4)]

InList(entry, entries) == \E k \in 1..Len(entries) : entries[k] = entry

\* C2: for a birthday on 29 February the occurrence computed for a year is
\* 29 February when the year is a leap year and 28 February when it is not,
\* for today's year and for the year after (used when the first occurrence
\* is before today); 29.02.2000 asked on 28.02.2023 with a window of 7 is
\* returned with the congratulation date 28.02.2023.
C2_LeapDayOccurrence ==
  \A i \in LeapDayRecords :
    /\ \A year \in {today.y, today.y + 1} :
         SafeBirthdayForYear(DateValue(book[i].birthday), year)
           = (IF (year % 4 = 0 /\ year % 100 # 0) \/ year % 400 = 0
              THEN Date(year, 2, 29) ELSE Date(year, 2, 28))
    /\ Occurrence(DateValue(book[i].birthday), today).y
         = (IF ToOrdinal(SafeBirthdayForYear(DateValue(book[i].birthday), today.y))
                 < ToOrdinal(today)
            THEN today.y + 1 ELSE today.y)
    /\ (Queried /\ ret.exc = "none" /\ today = Date(2023, 2, 28) /\ call.days = 7
          => InList(Entry(book[i].name.value, "2", "8", "0", "2", "2", "0", "2", "3"),
                    ret.value))
    /\ (Queried /\ ret.exc = "none" /\ today = Date(2023, 3, 1) /\ call.days = 366
          => InList(Entry(book[i].name.value, "2", "9", "0", "2", "2", "0", "2", "4"),
                    ret.value))
    /\ (Queried /\ ret.exc = "none" /\ today.y = 2024 /\ call.days = 366
          => InList(Entry(book[i].name.value, "2", "8", "0", "2", "2", "0", "2", "5"),
                    ret.value))

C2_Witness ==
  /\ Queried
  /\ ret.exc = "none"
  /\ today = Date(2023, 2, 28)
  /\ call.days = 7
  /\ \E i \in LeapDayRecords :
       InList(Entry(book[i].name.value, "2", "8", "0", "2", "2", "0", "2", "3"), ret.value)

\* C3: a returned congratulation date is the record's occurrence plus 2 days
\* for a Saturday, plus 1 for a Sunday, and the occurrence otherwise, hence a
\* Monday to Friday; the window is tested on the moved date: a record is
\* returned exactly when the moved date is 0 to windowDays days ahead, so a
\* weekend occurrence inside the window is left out when its Monday is not.
C3_WeekendShift ==
  Queried /\ ret.exc = "none" =>
    \A i \in 1..Len(book) :
      HasBirthday(book[i]) =>
        LET occ == Occurrence(DateValue(book[i].birthday), today)
            moved == ToOrdinal(occ) + WeekendShift(occ)
            ahead == moved - ToOrdinal(today)
        IN  /\ (0 <= ahead /\ ahead <= call.days) <=> EntriesOf(book[i], ret.value) # {}
            /\ \A k \in EntriesOf(book[i], ret.value) :
                 /\ ToOrdinal(EntryDate(ret.value[k])) = moved
                 /\ Weekday(EntryDate(ret.value[k])) \in 0..4

\* a Saturday or Sunday occurrence inside the window, left out for its Monday
C3_Witness ==
  /\ Queried
  /\ ret.exc = "none"
  /\ \E i \in 1..Len(book) :
       /\ HasBirthday(book[i])
       /\ Weekday(Occurrence(DateValue(book[i].birthday), today)) \in {5, 6}
       /\ DaysBetween(Occurrence(DateValue(book[i].birthday), today), today) \in 0..call.days
       /\ EntriesOf(book[i], ret.value) = {}

\* C4: the returned list is ascending by congratulation date as a calendar
\* date (not as DD.MM.YYYY text), and entries of one date keep the order in
\* which their records were inserted in the directory.
C4_SortedByCalendarDate ==
  Queried /\ ret.exc = "none" =>
    \A j, k \in 1..Len(ret.value) :
      j < k =>
        \/ ToOrdinal(EntryDate(ret.value[j])) < ToOrdinal(EntryDate(ret.value[k]))
        \/ /\ ToOrdinal(EntryDate(ret.value[j])) = ToOrdinal(EntryDate(ret.value[k]))
           /\ IndexOf(book, ret.value[j].name) < IndexOf(book, ret.value[k].name)

\* a December date returned before a January one, which as text comes first
C4_Witness ==
  /\ Queried
  /\ ret.exc = "none"
  /\ \E j, k \in 1..Len(ret.value) :
       /\ j < k
       /\ EntryDate(ret.value[j]).y < EntryDate(ret.value[k]).y
       /\ EntryDate(ret.value[j]).m = 12
       /\ EntryDate(ret.value[k]).m = 1

\* C10: with the directory unchanged and the day advancing by one, a contact
\* returned with congratulation date d is returned again, with the same d,
\* on every day up to and including d.
C10_ReportedUntilCongratulated ==
  [][(today' = NextDay(today) /\ book' = book) =>
       \A w \in Windows :
         GetUpcomingBirthdays(book, today, w, padYear).exc = "none" =>
           \A k \in 1..Len(GetUpcomingBirthdays(book, today, w, padYear).value) :
             LET e == GetUpcomingBirthdays(book, today, w, padYear).value[k]
             IN  ToOrdinal(EntryDate(e)) >= ToOrdinal(today') =>
                   /\ GetUpcomingBirthdays(book', today', w, padYear').exc = "none"
                   /\ InList(e, GetUpcomingBirthdays(book', today', w, padYear').value)
    ]_vars

----------------------------------------------------------------------------
(* The Record's phones *)

\* exactly 10 decimal digits
IsTenDecimalDigits(s) == Len(s) = 10 /\ \A i \in 1..Len(s) : s[i] \in AsciiDigits

Positions(phones, v) == {i \in 1..Len(phones) : phones[i].value = v}

Holds(phones, v) == Positions(phones, v) # {}

FirstPosition(phones, v) ==
  CHOOSE i \in Positions(phones, v) : \A j \in Positions(phones, v) : i <= j

RecordOf(bk, name) == bk[IndexOf(bk, name)]

\* C5: an edit_phone(old, new) that fails leaves the Record as it was; it
\* fails with the not-found error when old is no stored phone, and with the
\* validation error when old is stored and new is not a valid 10-digit phone.
C5_FailedEditLeavesRecord ==
  [][call'.op = "edit_phone" =>
       LET before == RecordOf(book, call'.target)
           after == RecordOf(book', call'.target)
           old == call'.args[1]
           new == call'.args[2]
       IN  /\ ret'.exc # "none" => after = before
           /\ ~Holds(before.phones, old) =>
                /\ ret'.exc = "ValueError"
                /\ ret'.e = "Old phone {old_phone} not found"
                /\ after = before
           /\ Holds(before.phones, old) /\ ~IsTenDecimalDigits(Strip(new)) =>
                /\ ret'.exc = "ValueError"
                /\ ret'.e = "phone must have 10 digits"
                /\ after = before
    ]_vars

\* the edit of the first phone equal to old into v, all else as it was
EditedTo(before, after, old, v) ==
  /\ Holds(before.phones, old)
  /\ after.phones = [before.phones EXCEPT ![FirstPosition(before.phones, old)] = [value |-> v]]
  /\ after.name = before.name
  /\ after.birthday = before.birthday

\* C8 as stated: a successful edit_phone(old, new) makes the first phone
\* equal to old become new in place and changes nothing else; then
\* find_phone(new) succeeds, and find_phone(old) finds nothing when old
\* occurred once and new differs from old.
C8_EditStoresNew ==
  [][call'.op = "edit_phone" /\ ret'.exc = "none" =>
       LET before == RecordOf(book, call'.target)
           after == RecordOf(book', call'.target)
           old == call'.args[1]
           new == call'.args[2]
       IN  /\ EditedTo(before, after, old, new)
           /\ Holds(after.phones, new)
           /\ Cardinality(Positions(before.phones, old)) = 1 /\ new # old
                => ~Holds(after.phones, old)
    ]_vars

\* C8 amended: a successful edit_phone(old, new) makes the first phone equal
\* to old become new stripped of its surrounding whitespace, in place, and
\* changes nothing else; then find_phone of the stripped new succeeds, and
\* find_phone(old) finds nothing when old occurred once and the stripped new
\* differs from old.
C8_EditStoresStrippedNew ==
  [][call'.op = "edit_phone" /\ ret'.exc = "none" =>
       LET before == RecordOf(book, call'.target)
           after == RecordOf(book', call'.target)
           old == call'.args[1]
           new == call'.args[2]
       IN  /\ EditedTo(before, after, old, Strip(new))
           /\ Holds(after.phones, Strip(new))
           /\ Cardinality(Positions(before.phones, old)) = 1 /\ Strip(new) # old
                => ~Holds(after.phones, old)
    ]_vars

\* the first of two equal phones edited, with a new phone given in spaces
C8_Witness ==
  /\ call.op = "edit_phone"
  /\ call.args = <<Phone1, Phone2Spaced>>
  /\ ret.exc = "none"
  /\ RecordOf(book, call.target).phones = <<[value |-> Phone2], [value |-> Phone1]>>

----------------------------------------------------------------------------
(* The shell *)

\* C6: after any sequence of operations every stored phone is a string of
\* exactly 10 decimal digits.
C6_StoredPhonesAreTenDecimalDigits ==
  \A i \in 1..Len(book) :
    \A j \in 1..Len(book[i].phones) : IsTenDecimalDigits(book[i].phones[j].value)

Required(op) ==
  CASE op = "add" -> 2
    [] op = "change" -> 3
    [] op = "phone" -> 1
    [] op = "add_birthday" -> 2
    [] op = "show_birthday" -> 1

\* C7: a handler given fewer arguments than it requires returns "Not enough
\* arguments.", and change, phone, add_birthday and show_birthday naming an
\* unknown contact return "Name not found.".
C7_FixedMessages ==
  /\ call.op \in {"add", "change", "phone", "add_birthday", "show_birthday"}
       /\ Len(call.args) < Required(call.op)
       => ret.msg = "Not enough arguments."
  /\ call.op \in {"change", "phone", "add_birthday", "show_birthday"}
       /\ Len(call.args) >= Required(call.op)
       /\ IndexOf(book, call.args[1]) = 0
       => ret.msg = "Name not found."

Handlers == {"add", "change", "phone", "add_birthday", "show_birthday", "birthdays"}

\* C9: a handler call that returns an error message leaves the directory as
\* it was: the same contacts with the same phones and birthdays.
C9_FailedCommandLeavesDirectory ==
  [][call'.op \in Handlers /\ ret'.exc # "none" => book' = book]_vars

====
